---- MODULE Spec2Model ----
(***************************************************************************)
(* Model of the ESP32 relay server (the newest variant of the server      *)
(* script, src/unnamed/part_000): the shared serverState, the              *)
(* lastHistoryTimestamp, the command validator                             *)
(* updateServerStateFromCommand, the esp32_message handler with its        *)
(* history admission, the two observer command paths (POST /api/command    *)
(* and the web_command socket event), the cron poll, and the connection,   *)
(* request_state and disconnect events of the sockets.                     *)
(*                                                                         *)
(* Every handler is one atomic action (node's run-to-completion event      *)
(* loop).  The messages a handler emits are recorded in `emitted`, the     *)
(* HTTP answer in `response`, the event that was handled in `last`, the    *)
(* connected sockets (device and observers alike) in `sockets`.            *)
(*                                                                         *)
(* JavaScript values whose type the code inspects (command.action,         *)
(* command.value) are tagged records [type, v]; the fields of a device     *)
(* report have the JavaScript type of the DeviceState field they overwrite *)
(* (number, boolean, string, array) but are otherwise arbitrary: the       *)
(* handler validates nothing.                                              *)
(***************************************************************************)
EXTENDS Integers, Sequences, FiniteSets, TLC

VARIABLES serverState, lastHistoryTimestamp, clock, emitted, response, last, steps,
          sockets

vars == <<serverState, lastHistoryTimestamp, clock, emitted, response, last, steps,
          sockets>>

-----------------------------------------------------------------------------
(* Bounds of the model *)

\* number of events (handler runs) in a behaviour
MaxSteps == 3

-----------------------------------------------------------------------------
(* Program constants *)

MAX_HISTORY == 24

HISTORY_INTERVAL_MINUTES == 60

\* const historyIntervalMs = HISTORY_INTERVAL_MINUTES * 60 * 1000
historyIntervalMs == HISTORY_INTERVAL_MINUTES * 60 * 1000

\* JavaScript null in a numeric slot (temperature, humidity, lastHistoryTimestamp);
\* Date.now() and the sensor readings of the model are >= 0
NULL == -1

-----------------------------------------------------------------------------
(* JavaScript values *)

Undefined == [type |-> "undefined"]

Bool(b) == [type |-> "boolean", v |-> b]

Str(s) == [type |-> "string", v |-> s]

Num(n) == [type |-> "number", v |-> n]

\* the characters of the string literals the model passes around
Spelling ==
    ( "" :> <<>> ) @@
    ( "25" :> <<"2", "5">> ) @@
    ( "18.5" :> <<"1", "8", ".", "5">> ) @@
    ( "abc" :> <<"a", "b", "c">> ) @@
    ( "true" :> <<"t", "r", "u", "e">> ) @@
    ( "false" :> <<"f", "a", "l", "s", "e">> ) @@
    ( "undefined" :> <<"u", "n", "d", "e", "f", "i", "n", "e", "d">> )

DigitValue ==
    ( "0" :> 0 ) @@ ( "1" :> 1 ) @@ ( "2" :> 2 ) @@ ( "3" :> 3 ) @@ ( "4" :> 4 ) @@
    ( "5" :> 5 ) @@ ( "6" :> 6 ) @@ ( "7" :> 7 ) @@ ( "8" :> 8 ) @@ ( "9" :> 9 )

DigitChar == [n \in 0..9 |-> CHOOSE c \in DOMAIN DigitValue : DigitValue[c] = n]

RECURSIVE DecimalChars(_)
\* Number.prototype.toString of a non-negative integer
DecimalChars(n) ==
    IF n < 10 THEN <<DigitChar[n]>>
    ELSE Append(DecimalChars(n \div 10), DigitChar[n % 10])

\* ToString, the conversion parseInt applies to its argument first
ToStringJS(val) ==
    CASE val.type = "string" -> Spelling[val.v]
      [] val.type = "number" ->
            IF val.v < 0 THEN <<"-">> \o DecimalChars(-val.v) ELSE DecimalChars(val.v)
      [] val.type = "boolean" -> IF val.v THEN Spelling["true"] ELSE Spelling["false"]
      [] OTHER -> Spelling["undefined"]

NaN == [nan |-> TRUE, n |-> 0]

RECURSIVE SkipWhite(_)
SkipWhite(cs) ==
    IF cs # <<>> /\ Head(cs) = " " THEN SkipWhite(Tail(cs)) ELSE cs

RECURSIVE DigitPrefix(_)
\* the longest prefix of decimal digits
DigitPrefix(cs) ==
    IF cs # <<>> /\ Head(cs) \in DOMAIN DigitValue
    THEN <<Head(cs)>> \o DigitPrefix(Tail(cs))
    ELSE <<>>

RECURSIVE DigitsValue(_)
DigitsValue(ds) ==
    IF ds = <<>> THEN 0
    ELSE 10 * DigitsValue(SubSeq(ds, 1, Len(ds) - 1)) + DigitValue[ds[Len(ds)]]

\* parseInt(value) with no radix: leading white space is skipped, a sign is read,
\* the longest run of digits is converted, whatever follows is ignored; NaN when
\* there is no digit
parseInt(val) ==
    LET cs     == SkipWhite(ToStringJS(val))
        signed == cs # <<>> /\ Head(cs) \in {"-", "+"}
        neg    == cs # <<>> /\ Head(cs) = "-"
        ds     == DigitPrefix(IF signed THEN Tail(cs) ELSE cs)
    IN  IF ds = <<>> THEN NaN
        ELSE [nan |-> FALSE, n |-> IF neg THEN -DigitsValue(ds) ELSE DigitsValue(ds)]

isNaN(p) == p.nan

\* !x
Falsy(val) ==
    \/ val.type = "undefined"
    \/ val.type = "null"
    \/ val.type = "string" /\ val.v = ""
    \/ val.type = "number" /\ val.v = 0
    \/ val.type = "boolean" /\ val.v = FALSE

\* x === "literal"
IsString(val, s) == val.type = "string" /\ val.v = s

\* a command payload: null, or an object with any of the keys action and value
NullPayload == [type |-> "null"]

Object(fields) == [type |-> "object", fields |-> fields]

\* command.key (undefined when the key is absent)
Get(command, key) ==
    IF key \in DOMAIN command.fields THEN command.fields[key] ELSE Undefined

-----------------------------------------------------------------------------
(* State *)

InitialServerState ==
    [ temperature     |-> NULL,
      humidity        |-> NULL,
      targetTemp      |-> 25,
      power           |-> FALSE,
      mode            |-> "cool",
      fanSpeed        |-> "auto",
      swing           |-> "off",
      history         |-> <<>>,
      humidityHistory |-> <<>> ]

NoResponse == [status |-> "none"]

Init ==
    /\ serverState = InitialServerState
    /\ lastHistoryTimestamp = NULL
    /\ clock = 0
    /\ emitted = <<>>
    /\ response = NoResponse
    /\ last = [kind |-> "init"]
    /\ steps = 0
    /\ sockets = {}

-----------------------------------------------------------------------------
(* Command validator *)

validModes == {"cool", "dry", "fan"}

validFanSpeeds == {"low", "med", "high", "auto"}

validSwing == {"on", "off"}

\* array.includes(value): strict equality with one of the string literals
Includes(valid, val) == val.type = "string" /\ val.v \in valid

\* typeof command.value === "boolean"
ValidPower(val) == val.type = "boolean"

\* any string taken for a mode
ValidMode_AnyString(val) == val.type = "string"

ValidMode(val) == Includes(validModes, val)

\* any string taken for a fan speed
ValidFanSpeed_AnyString(val) == val.type = "string"

ValidFanSpeed(val) == Includes(validFanSpeeds, val)

ValidSwing(val) == Includes(validSwing, val)

\* the range taken without its ends
ValidTemp_Exclusive(temp) == ~isNaN(temp) /\ temp.n > 18 /\ temp.n < 32

\* !isNaN(temp) && temp >= 18 && temp <= 32
ValidTemp(temp) == ~isNaN(temp) /\ temp.n >= 18 /\ temp.n <= 32

\* !command || !command.action
InvalidCommand(command) ==
    \/ command.type = "null"
    \/ Falsy(Get(command, "action"))

\* a switch case that ends with `updated` still false
NotUpdated(state) == [state |-> state, updated |-> FALSE]

\* case "power"
CasePower(state, value) ==
    IF ValidPower(value)
    THEN [state |-> [state EXCEPT !.power = value.v], updated |-> TRUE]
    ELSE NotUpdated(state)

\* the mode assigned before it is validated
CaseSetMode_AssignFirst(state, value) ==
    [state |-> [state EXCEPT !.mode = value.v], updated |-> ValidMode(value)]

\* case "set_mode"
CaseSetMode(state, value) ==
    IF ValidMode(value)
    THEN [state |-> [state EXCEPT !.mode = value.v], updated |-> TRUE]
    ELSE NotUpdated(state)

\* case "set_fan"
CaseSetFan(state, value) ==
    IF ValidFanSpeed(value)
    THEN [state |-> [state EXCEPT !.fanSpeed = value.v], updated |-> TRUE]
    ELSE NotUpdated(state)

\* case "set_swing"
CaseSetSwing(state, value) ==
    IF ValidSwing(value)
    THEN [state |-> [state EXCEPT !.swing = value.v], updated |-> TRUE]
    ELSE NotUpdated(state)

\* a temperature command that also switches the unit on
CaseTemp_AlsoPowersOn(state, value) ==
    LET temp == parseInt(value)
    IN  IF ValidTemp(temp)
        THEN [ state |-> [state EXCEPT !.targetTemp = temp.n, !.power = TRUE],
               updated |-> TRUE ]
        ELSE NotUpdated(state)

\* case "temp": const temp = parseInt(command.value)
CaseTemp(state, value) ==
    LET temp == parseInt(value)
    IN  IF ValidTemp(temp)
        THEN [state |-> [state EXCEPT !.targetTemp = temp.n], updated |-> TRUE]
        ELSE NotUpdated(state)

\* updateServerStateFromCommand(command): the state it leaves and what it returns
updateServerStateFromCommand(state, command) ==
    IF InvalidCommand(command) THEN NotUpdated(state)
    ELSE
      LET action == Get(command, "action")
          value  == Get(command, "value")
      IN  CASE IsString(action, "power")     -> CasePower(state, value)
            [] IsString(action, "set_mode")  -> CaseSetMode(state, value)
            [] IsString(action, "set_fan")   -> CaseSetFan(state, value)
            [] IsString(action, "set_swing") -> CaseSetSwing(state, value)
            [] IsString(action, "temp")      -> CaseTemp(state, value)
            [] IsString(action, "report")    -> NotUpdated(state)
            [] OTHER                         -> NotUpdated(state)

-----------------------------------------------------------------------------
(* Device reports and history admission *)

\* a merge that takes over the sensor readings and the histories only
Merge_SensorsOnly(state, data) ==
    [f \in DOMAIN state |->
        IF f \in DOMAIN data
              /\ f \in {"temperature", "humidity", "history", "humidityHistory"}
        THEN data[f] ELSE state[f]]

\* { ...serverState, ...data }: every key of data overwrites, the others stay
Merge(state, data) ==
    [f \in DOMAIN state \cup DOMAIN data |->
        IF f \in DOMAIN data THEN data[f] ELSE state[f]]

\* data.key !== undefined
Present(data, key) == key \in DOMAIN data

\* array.push(x)
Push(arr, x) == Append(arr, x)

\* the newest entry dropped instead of the oldest
Shift_Newest(arr) == SubSeq(arr, 1, Len(arr) - 1)

\* array.shift()
Shift(arr) == Tail(arr)

\* the size limit forgotten
LimitSize_NoShift(arr) == arr

\* if (array.length > MAX_HISTORY) array.shift()
LimitSize(arr) == IF Len(arr) > MAX_HISTORY THEN Shift(arr) ELSE arr

\* the interval compared with > instead of >=
ShouldAdmit_Strict(lastTs, now) ==
    \/ lastTs = NULL
    \/ now - lastTs > historyIntervalMs

\* the first-entry case forgotten
ShouldAdmit_IntervalOnly(lastTs, now) ==
    /\ lastTs # NULL
    /\ now - lastTs >= historyIntervalMs

\* lastHistoryTimestamp === null || now - lastHistoryTimestamp >= historyIntervalMs
ShouldAdmit(lastTs, now) ==
    \/ lastTs = NULL
    \/ now - lastTs >= historyIntervalMs

\* the humidity pushed without the size limit
AdmitHumidity_NoLimit(state, data) ==
    IF Present(data, "humidity")
    THEN [state EXCEPT !.humidityHistory = Push(@, data.humidity)]
    ELSE state

\* the humidity block inside an admission
AdmitHumidity(state, data) ==
    IF Present(data, "humidity")
    THEN [state EXCEPT !.humidityHistory = LimitSize(Push(@, data.humidity))]
    ELSE state

\* the interval restarted by a temperature that is not admitted
HistoryAdmission_RestartOnReject(state, data, lastTs, now) ==
    IF ShouldAdmit(lastTs, now)
    THEN [ state |-> AdmitHumidity(
                        [state EXCEPT !.history = LimitSize(Push(@, data.temperature))],
                        data),
           lastHistoryTimestamp |-> now ]
    ELSE [ state |-> state, lastHistoryTimestamp |-> now ]

\* the humidity block moved out of the admission test
HistoryAdmission_HumidityAlways(state, data, lastTs, now) ==
    IF ShouldAdmit(lastTs, now)
    THEN [ state |-> AdmitHumidity(
                        [state EXCEPT !.history = LimitSize(Push(@, data.temperature))],
                        data),
           lastHistoryTimestamp |-> now ]
    ELSE [ state |-> AdmitHumidity(state, data), lastHistoryTimestamp |-> lastTs ]

\* the body of `if (data.temperature !== undefined)`: the state and the
\* lastHistoryTimestamp it leaves
HistoryAdmission(state, data, lastTs, now) ==
    IF ShouldAdmit(lastTs, now)
    THEN [ state |-> AdmitHumidity(
                        [state EXCEPT !.history = LimitSize(Push(@, data.temperature))],
                        data),
           lastHistoryTimestamp |-> now ]
    ELSE [ state |-> state, lastHistoryTimestamp |-> lastTs ]

-----------------------------------------------------------------------------
(* Messages *)

\* io.emit(event, payload): to every connected socket
Emit(event, payload) == [event |-> event, payload |-> payload, to |-> "all"]

\* socket.emit(event, payload): to this socket alone
EmitTo(socket, event, payload) == [event |-> event, payload |-> payload, to |-> socket]

\* the broadcast sent before the history admission
ReportEmits_BeforeAdmission(merged, final) == <<Emit("web_update", merged)>>

\* what the esp32_message handler emits: one broadcast, after the merge and the
\* history admission
ReportEmits(merged, final) == <<Emit("web_update", final)>>

\* the relay made conditional on the state update, like the broadcast
CommandEmits_RelayIfUpdated(data, stateUpdated, state) ==
    IF stateUpdated
    THEN <<Emit("esp32_command", data), Emit("web_update", state)>>
    ELSE <<>>

\* the broadcast made unconditional, like the relay
CommandEmits_AlwaysBroadcast(data, stateUpdated, state) ==
    <<Emit("esp32_command", data), Emit("web_update", state)>>

\* what both observer command paths emit: the relay, then the conditional broadcast
CommandEmits(data, stateUpdated, state) ==
    <<Emit("esp32_command", data)>>
        \o (IF stateUpdated THEN <<Emit("web_update", state)>> ELSE <<>>)

-----------------------------------------------------------------------------
(* Inputs of the model *)

\* the commands an observer sends on either path
ObjectCommands ==
    { Object(<<>>), Object([value |-> Num(20)]),
      Object([action |-> Str("")]),
      Object([action |-> Str("report")]),
      Object([action |-> Str("foo"), value |-> Num(20)]),
      Object([action |-> Str("power"), value |-> Bool(TRUE)]),
      Object([action |-> Str("power"), value |-> Str("true")]),
      Object([action |-> Str("power")]),
      Object([action |-> Str("set_mode"), value |-> Str("dry")]),
      Object([action |-> Str("set_mode"), value |-> Str("heat")]),
      Object([action |-> Str("set_fan"), value |-> Str("low")]),
      Object([action |-> Str("set_fan"), value |-> Str("turbo")]),
      Object([action |-> Str("set_swing"), value |-> Str("on")]),
      Object([action |-> Str("set_swing"), value |-> Bool(TRUE)]),
      Object([action |-> Str("temp"), value |-> Num(17)]),
      Object([action |-> Str("temp"), value |-> Num(18)]),
      Object([action |-> Str("temp"), value |-> Num(32)]),
      Object([action |-> Str("temp"), value |-> Num(33)]),
      Object([action |-> Str("temp"), value |-> Str("25")]),
      Object([action |-> Str("temp"), value |-> Str("18.5")]),
      Object([action |-> Str("temp"), value |-> Str("abc")]),
      Object([action |-> Str("temp")]) }

\* a history array of exactly MAX_HISTORY entries, and one that is longer
FullHistory == [i \in 1..MAX_HISTORY |-> i]

OverlongHistory == [i \in 1..(MAX_HISTORY + 1) |-> i]

\* the device reports of the model: partial DeviceState objects
Reports ==
    { [temperature |-> 20],
      [temperature |-> 21, humidity |-> 50],
      [humidity |-> 55],
      [power |-> TRUE, targetTemp |-> 30, fanSpeed |-> "med"],
      [mode |-> "heat"],
      [fanSpeed |-> "turbo", swing |-> "auto"],
      [history |-> FullHistory, humidityHistory |-> FullHistory],
      [temperature |-> 21, humidity |-> 50,
       history |-> FullHistory, humidityHistory |-> FullHistory],
      [temperature |-> 20, history |-> <<>>],
      [history |-> OverlongHistory],
      [temperature |-> 20, humidity |-> 50, humidityHistory |-> OverlongHistory] }

\* the time Date.now() has advanced since it was last read
Delays == {1, historyIntervalMs - 1}

\* the sockets that may be connected at once: the device and the observers.  No
\* handler reads which socket an event came from, so the connected sockets are
\* kept up to renaming: s1 names the first of them, s2 the second
SocketIds == {"s1", "s2"}

\* a socket event may carry no payload at all
SocketCommands == ObjectCommands \cup {NullPayload}

-----------------------------------------------------------------------------
(* Handlers *)

\* what the POST handler does to the state and the sockets: the state update,
\* the relay, the conditional broadcast
PostApiEffect(data) ==
    LET r == updateServerStateFromCommand(serverState, data)
    IN  /\ serverState' = r.state
        /\ emitted' = CommandEmits(data, r.updated, r.state)

\* app.post("/api/command", ...)
PostApiCommand(data) ==
    /\ steps < MaxSteps
    /\ PostApiEffect(data)
    /\ response' = [status |-> "success", data |-> data]
    /\ last' = [ kind |-> "post_api_command", data |-> data,
                 updated |-> updateServerStateFromCommand(serverState, data).updated ]
    /\ steps' = steps + 1
    /\ UNCHANGED <<lastHistoryTimestamp, clock, sockets>>

\* the web_command handler of the first server variants: a relay and nothing else
WebCommandEffect_RelayOnly(data) ==
    /\ serverState' = serverState
    /\ emitted' = <<Emit("esp32_command", data)>>

\* what the web_command handler does to the state and the sockets: the state
\* update, the relay, the conditional broadcast
WebCommandEffect(data) ==
    LET r == updateServerStateFromCommand(serverState, data)
    IN  /\ serverState' = r.state
        /\ emitted' = CommandEmits(data, r.updated, r.state)

\* socket.on("web_command", ...): registered on a connected socket
WebCommand(data) ==
    /\ sockets # {}
    /\ steps < MaxSteps
    /\ WebCommandEffect(data)
    /\ last' = [ kind |-> "web_command", data |-> data,
                 updated |-> updateServerStateFromCommand(serverState, data).updated ]
    /\ response' = NoResponse
    /\ steps' = steps + 1
    /\ UNCHANGED <<lastHistoryTimestamp, clock, sockets>>

\* socket.on("esp32_message", ...): registered on a connected socket
ESP32Message(data, delay) ==
    /\ sockets # {}
    /\ steps < MaxSteps
    /\ LET merged == Merge(serverState, data)
           now    == clock + delay
           r      == IF Present(data, "temperature")
                     THEN HistoryAdmission(merged, data, lastHistoryTimestamp, now)
                     ELSE [ state |-> merged,
                            lastHistoryTimestamp |-> lastHistoryTimestamp ]
       IN  /\ serverState' = r.state
           /\ lastHistoryTimestamp' = r.lastHistoryTimestamp
           /\ clock' = now
           /\ emitted' = ReportEmits(merged, r.state)
           /\ last' = [kind |-> "esp32_message", data |-> data, now |-> now]
    /\ response' = NoResponse
    /\ steps' = steps + 1
    /\ UNCHANGED sockets

\* the poll sent through the broadcast path as well
CronPoll_AlsoBroadcasts ==
    /\ steps < MaxSteps
    /\ emitted' = << Emit("esp32_command", Object([action |-> Str("report")])),
                     Emit("web_update", serverState) >>
    /\ response' = NoResponse
    /\ last' = [kind |-> "cron"]
    /\ steps' = steps + 1
    /\ UNCHANGED <<serverState, lastHistoryTimestamp, clock, sockets>>

\* cron.schedule(CRON_EXPRESSION, ...)
CronPoll ==
    /\ steps < MaxSteps
    /\ emitted' = <<Emit("esp32_command", Object([action |-> Str("report")]))>>
    /\ response' = NoResponse
    /\ last' = [kind |-> "cron"]
    /\ steps' = steps + 1
    /\ UNCHANGED <<serverState, lastHistoryTimestamp, clock, sockets>>

\* the initial state sent with io.emit instead of socket.emit
Connection_Broadcast(socket) ==
    /\ steps < MaxSteps
    /\ socket \notin sockets
    /\ socket = "s2" => "s1" \in sockets
    /\ sockets' = sockets \cup {socket}
    /\ emitted' = <<Emit("web_update", serverState)>>
    /\ response' = NoResponse
    /\ last' = [kind |-> "connection", socket |-> socket]
    /\ UNCHANGED <<serverState, lastHistoryTimestamp, clock, steps>>

\* io.on("connection", ...): the new socket is sent the current state
Connection(socket) ==
    /\ steps < MaxSteps
    /\ socket \notin sockets
    /\ socket = "s2" => "s1" \in sockets      \* the second socket comes second
    /\ sockets' = sockets \cup {socket}
    /\ emitted' = <<EmitTo(socket, "web_update", serverState)>>
    /\ response' = NoResponse
    /\ last' = [kind |-> "connection", socket |-> socket]
    /\ UNCHANGED <<serverState, lastHistoryTimestamp, clock, steps>>

\* socket.on("request_state", ...)
RequestState(socket) ==
    /\ steps < MaxSteps
    /\ socket \in sockets
    /\ emitted' = <<EmitTo(socket, "web_update", serverState)>>
    /\ response' = NoResponse
    /\ last' = [kind |-> "request_state", socket |-> socket]
    /\ UNCHANGED <<serverState, lastHistoryTimestamp, clock, steps, sockets>>

\* socket.on("disconnect", ...): only logs
Disconnect(socket) ==
    /\ steps < MaxSteps
    /\ socket \in sockets
    /\ socket = "s1" => "s2" \notin sockets   \* whoever stays is renamed s1
    /\ sockets' = sockets \ {socket}
    /\ emitted' = <<>>
    /\ response' = NoResponse
    /\ last' = [kind |-> "disconnect", socket |-> socket]
    /\ UNCHANGED <<serverState, lastHistoryTimestamp, clock, steps>>

Next ==
    \/ \E data \in Reports :
          \E delay \in (IF Present(data, "temperature") THEN Delays ELSE {0}) :
            ESP32Message(data, delay)
    \/ \E data \in ObjectCommands : PostApiCommand(data)
    \/ \E data \in SocketCommands : WebCommand(data)
    \/ CronPoll
    \/ \E socket \in SocketIds : Connection(socket)
    \/ \E socket \in SocketIds : RequestState(socket)
    \/ \E socket \in SocketIds : Disconnect(socket)

Spec == Init /\ [][Next]_vars

-----------------------------------------------------------------------------
(* Properties *)

IsReport(l) == l.kind = "esp32_message"

IsCommand(l) == l.kind \in {"post_api_command", "web_command"}

WithinCapacity(state) ==
    /\ Len(state.history) <= MAX_HISTORY
    /\ Len(state.humidityHistory) <= MAX_HISTORY

\* a report whose history arrays, when present, hold at most MAX_HISTORY entries
ReportWithinCapacity(data) ==
    \A k \in {"history", "humidityHistory"} :
        Present(data, k) => Len(data[k]) <= MAX_HISTORY

\* C1 as stated: in every reachable state history and humidityHistory hold at
\* most MAX_HISTORY entries, whatever fields the device reports carried.
C1_HistoriesBounded == WithinCapacity(serverState)

\* C1 amended: the initial histories are within MAX_HISTORY, and every handler
\* run that starts with both histories within MAX_HISTORY ends with both within
\* MAX_HISTORY, unless it is a device report that itself carries a history or
\* humidityHistory array of more than MAX_HISTORY entries.  So the bound holds
\* in every state reached by reports whose history arrays are within capacity.
C1_HistoriesBoundedUnlessOverwritten ==
    /\ WithinCapacity(serverState)
    /\ [][ ( /\ WithinCapacity(serverState)
             /\ IsReport(last') => ReportWithinCapacity(last'.data) )
           => WithinCapacity(serverState') ]_vars

\* an admission into a full history: the report brought MAX_HISTORY entries and
\* a temperature, the oldest entry went and the temperature is the newest
C1_Witness ==
    /\ IsReport(last)
    /\ Present(last.data, "temperature") /\ Present(last.data, "history")
    /\ Len(last.data.history) = MAX_HISTORY
    /\ Len(serverState.history) = MAX_HISTORY
    /\ serverState.history[MAX_HISTORY] = last.data.temperature
    /\ serverState.history[1] = last.data.history[2]
    /\ Len(serverState.humidityHistory) = MAX_HISTORY

\* the step is a device report with a temperature, handled when an admission
\* had already happened
TemperatureReportAfterAdmission ==
    /\ IsReport(last')
    /\ Present(last'.data, "temperature")
    /\ lastHistoryTimestamp # NULL

Throttled == last'.now - lastHistoryTimestamp < historyIntervalMs

\* the report's temperature was admitted at the time the handler read
Admitted ==
    /\ lastHistoryTimestamp' = last'.now
    /\ Len(serverState'.history) > 0
    /\ serverState'.history[Len(serverState'.history)] = last'.data.temperature

\* C2 as stated: a temperature report handled less than HISTORY_INTERVAL after
\* the last admission leaves history, humidityHistory and lastHistoryTimestamp
\* unchanged; one handled HISTORY_INTERVAL or more after it is admitted and sets
\* lastHistoryTimestamp to now.
C2_ThrottledLeavesHistories ==
    [][ TemperatureReportAfterAdmission =>
          IF Throttled
          THEN /\ serverState'.history = serverState.history
               /\ serverState'.humidityHistory = serverState.humidityHistory
               /\ lastHistoryTimestamp' = lastHistoryTimestamp
          ELSE Admitted ]_vars

\* C2 amended: a temperature report handled less than HISTORY_INTERVAL after the
\* last admission is not admitted: it leaves lastHistoryTimestamp unchanged, and
\* history and humidityHistory are what the merge of the report made them (the
\* report's own array when it carries one, unchanged otherwise); one handled
\* HISTORY_INTERVAL or more after the last admission is admitted and sets
\* lastHistoryTimestamp to now.  lastHistoryTimestamp never moves by less than
\* HISTORY_INTERVAL, so there is at most one admission per interval.
C2_ThrottledFromLastAdmission ==
    [][ /\ TemperatureReportAfterAdmission =>
            IF Throttled
            THEN /\ lastHistoryTimestamp' = lastHistoryTimestamp
                 /\ \A k \in {"history", "humidityHistory"} :
                        serverState'[k] = IF Present(last'.data, k)
                                          THEN last'.data[k]
                                          ELSE serverState[k]
            ELSE Admitted
        /\ ( lastHistoryTimestamp # NULL
             /\ lastHistoryTimestamp' # lastHistoryTimestamp )
           => lastHistoryTimestamp' - lastHistoryTimestamp >= historyIntervalMs ]_vars

\* three temperature reports at times 1, 2 and HISTORY_INTERVAL + 1: the first
\* and the third were admitted, the second (inside the interval) was not
C2_Witness ==
    /\ steps = 3
    /\ IsReport(last)
    /\ last.now = historyIntervalMs + 1
    /\ lastHistoryTimestamp = last.now
    /\ Len(serverState.history) = 2
    /\ ~Present(last.data, "history")

\* C3: a report with a temperature handled while lastHistoryTimestamp is null
\* is admitted: its temperature becomes the newest history entry and
\* lastHistoryTimestamp becomes non-null, however short the time since start.
C3_FirstTemperatureAdmitted ==
    [][ ( /\ IsReport(last')
          /\ Present(last'.data, "temperature")
          /\ lastHistoryTimestamp = NULL )
        => ( /\ lastHistoryTimestamp' # NULL
             /\ Admitted ) ]_vars

\* the first admission, made less than HISTORY_INTERVAL after the start
C3_Witness ==
    /\ IsReport(last)
    /\ Present(last.data, "temperature")
    /\ last.now < historyIntervalMs
    /\ lastHistoryTimestamp = last.now
    /\ serverState.history = <<last.data.temperature>>

EnumsValid(state) ==
    /\ state.mode \in {"cool", "dry", "fan"}
    /\ state.fanSpeed \in {"low", "med", "high", "auto"}
    /\ state.swing \in {"on", "off"}

\* a report whose mode, fanSpeed and swing, when present, are enumerated values
ReportEnumsValid(data) ==
    /\ Present(data, "mode") => data.mode \in {"cool", "dry", "fan"}
    /\ Present(data, "fanSpeed") => data.fanSpeed \in {"low", "med", "high", "auto"}
    /\ Present(data, "swing") => data.swing \in {"on", "off"}

\* C4 as stated: in every reachable state mode, fanSpeed and swing are
\* enumerated values, whatever the device reports carried.
C4_EnumsAlwaysValid == EnumsValid(serverState)

\* C4 amended: the initial mode, fanSpeed and swing are enumerated values, and
\* every handler run that starts with enumerated values ends with enumerated
\* values, unless it is a device report that itself carries a mode, fanSpeed or
\* swing outside the enumeration.  So the three fields stay enumerated in every
\* state reached by commands, ticks and reports whose own mode, fanSpeed and
\* swing are enumerated values.
C4_EnumsValidUnlessOverwritten ==
    /\ EnumsValid(serverState)
    /\ [][ ( /\ EnumsValid(serverState)
             /\ IsReport(last') => ReportEnumsValid(last'.data) )
           => EnumsValid(serverState') ]_vars

\* a report set fanSpeed, a command set mode, and a command with a mode outside
\* the enumeration was rejected
C4_Witness ==
    /\ serverState.fanSpeed = "med"
    /\ serverState.mode = "dry"
    /\ IsCommand(last)
    /\ last.data = Object([action |-> Str("set_mode"), value |-> Str("heat")])

ActionOf(l) == Get(l.data, "action")

ValueOf(l) == Get(l.data, "value")

\* the handled event is an observer command with this action
IsCommandWith(l, action) ==
    /\ IsCommand(l)
    /\ l.data.type = "object"
    /\ ActionOf(l) = Str(action)

\* what a temp command must do for each value the observers of the model send:
\* <<value, accepted, the integer it parses to>>
TempCases ==
    { <<Num(17), FALSE, 17>>, <<Num(18), TRUE, 18>>, <<Num(32), TRUE, 32>>,
      <<Num(33), FALSE, 33>>, <<Str("25"), TRUE, 25>>, <<Str("18.5"), TRUE, 18>>,
      <<Str("abc"), FALSE, 0>>, <<Undefined, FALSE, 0>> }

\* C5: a temp command is accepted exactly when its value parses to an integer v
\* with 18 <= v <= 32 (17 and 33 rejected, 18 and 32 accepted); an accepted one
\* sets targetTemp to v, which lies in 18..32; a rejected one leaves targetTemp.
C5_TempAcceptedInRange ==
    [][ IsCommandWith(last', "temp") =>
          \E c \in TempCases :
            /\ c[1] = ValueOf(last')
            /\ last'.updated = c[2]
            /\ c[2] = (c[3] >= 18 /\ c[3] <= 32 /\ c[1] \notin {Str("abc"), Undefined})
            /\ IF last'.updated
               THEN serverState'.targetTemp = c[3] /\ serverState'.targetTemp \in 18..32
               ELSE serverState'.targetTemp = serverState.targetTemp ]_vars

\* temp 18 was accepted and then temp 17 was rejected, leaving the 18
C5_Witness ==
    /\ IsCommandWith(last, "temp")
    /\ ValueOf(last) = Num(17)
    /\ ~last.updated
    /\ serverState.targetTemp = 18

\* C6: power, set_mode, set_fan and set_swing return true and set their field to
\* the value exactly when the value is a boolean, one of cool/dry/fan, one of
\* low/med/high/auto, one of on/off; report, a missing command or action and
\* any other action return false.
C6_TableDecidesAcceptance ==
    [][ IsCommand(last') =>
          LET value == ValueOf(last')
          IN  CASE IsCommandWith(last', "power") ->
                     /\ last'.updated = (value \in {Bool(TRUE), Bool(FALSE)})
                     /\ last'.updated => serverState'.power = value.v
                [] IsCommandWith(last', "set_mode") ->
                     /\ last'.updated = (value \in {Str("cool"), Str("dry"), Str("fan")})
                     /\ last'.updated => serverState'.mode = value.v
                [] IsCommandWith(last', "set_fan") ->
                     /\ last'.updated =
                          (value \in {Str("low"), Str("med"), Str("high"), Str("auto")})
                     /\ last'.updated => serverState'.fanSpeed = value.v
                [] IsCommandWith(last', "set_swing") ->
                     /\ last'.updated = (value \in {Str("on"), Str("off")})
                     /\ last'.updated => serverState'.swing = value.v
                [] IsCommandWith(last', "temp") -> TRUE
                [] OTHER -> ~last'.updated ]_vars

\* the fan speed was set by an accepted command, and a power command whose value
\* is the string "true" was then rejected
C6_Witness ==
    /\ IsCommandWith(last, "power")
    /\ ValueOf(last) = Str("true")
    /\ ~last.updated
    /\ serverState.fanSpeed = "low"
    /\ serverState.power = FALSE

\* C7: an observer command for which updateServerStateFromCommand returns false
\* leaves every field of serverState and lastHistoryTimestamp as they were.
C7_RejectedLeavesState ==
    [][ (IsCommand(last') /\ ~last'.updated) =>
          /\ serverState' = serverState
          /\ lastHistoryTimestamp' = lastHistoryTimestamp ]_vars

\* set_mode heat was rejected in a state that earlier events had changed
C7_Witness ==
    /\ IsCommandWith(last, "set_mode")
    /\ ValueOf(last) = Str("heat")
    /\ ~last.updated
    /\ serverState.mode = "dry"
    /\ lastHistoryTimestamp # NULL

\* the messages of the last handler with this event name
Emitted(event) == SelectSeq(emitted, LAMBDA m : m.event = event)

\* C8: every observer command, accepted or not, is relayed exactly once as an
\* esp32_command with the payload it came with, and POST /api/command answers
\* {status: "success", data: <the command>}.
C8_AlwaysRelayed ==
    IsCommand(last) =>
        /\ Len(Emitted("esp32_command")) = 1
        /\ Emitted("esp32_command")[1].payload = last.data
        /\ last.kind = "post_api_command"
             => response = [status |-> "success", data |-> last.data]

\* a command without an action came by POST: rejected, relayed and answered
C8_Witness ==
    /\ last.kind = "post_api_command"
    /\ last.data = Object([value |-> Num(20)])
    /\ ~last.updated
    /\ emitted = <<Emit("esp32_command", last.data)>>
    /\ response.status = "success"

\* C9: an observer command is followed by a web_update exactly when
\* updateServerStateFromCommand returned true for it; report and rejected
\* commands are relayed without a web_update.
C9_BroadcastIffUpdated ==
    IsCommand(last) =>
        /\ Len(Emitted("web_update")) = (IF last.updated THEN 1 ELSE 0)
        /\ last.updated => Emitted("web_update")[1].payload = serverState
        /\ (last.data.type = "object" /\ ActionOf(last) = Str("report"))
             => ~last.updated

\* a report command: relayed, no broadcast
C9_Witness ==
    /\ IsCommandWith(last, "report")
    /\ emitted = <<Emit("esp32_command", last.data)>>
    /\ serverState # InitialServerState

\* C10: every device report is followed in its handler by exactly one
\* web_update, sent to all, carrying the state after the merge and after the
\* history admission of that report.
C10_ReportBroadcastsFinalState ==
    IsReport(last) => emitted = <<Emit("web_update", serverState)>>

\* a report whose temperature and humidity were admitted: the broadcast carries
\* the histories with the new entries
C10_Witness ==
    /\ IsReport(last)
    /\ Present(last.data, "temperature") /\ Present(last.data, "humidity")
    /\ lastHistoryTimestamp = last.now
    /\ Len(emitted) = 1
    /\ emitted[1].payload.history = <<20, last.data.temperature>>
    /\ emitted[1].payload.humidityHistory = <<last.data.humidity>>

\* the value of a history field once the report of this step is merged: the
\* report's own array when it carries one, the stored one otherwise
AfterMerge(k) == IF Present(last'.data, k) THEN last'.data[k] ELSE serverState[k]

\* an array after one entry is dropped from the front when it exceeds MAX_HISTORY
Capped(arr) == IF Len(arr) > MAX_HISTORY THEN SubSeq(arr, 2, Len(arr)) ELSE arr

\* the report of this step carries a temperature and passes the admission test
AdmittingStep ==
    /\ IsReport(last')
    /\ Present(last'.data, "temperature")
    /\ \/ lastHistoryTimestamp = NULL
       \/ last'.now - lastHistoryTimestamp >= historyIntervalMs

\* C11 as stated: humidityHistory changes only in a step that admits a
\* temperature of a report that carries humidity; a report without temperature
\* changes neither history nor humidityHistory nor lastHistoryTimestamp; a
\* throttled temperature report with humidity does not change humidityHistory.
C11_HumidityOnlyWithAdmission ==
    [][ /\ serverState'.humidityHistory # serverState.humidityHistory
            => (AdmittingStep /\ Present(last'.data, "humidity"))
        /\ (IsReport(last') /\ ~Present(last'.data, "temperature"))
            => /\ serverState'.history = serverState.history
               /\ serverState'.humidityHistory = serverState.humidityHistory
               /\ lastHistoryTimestamp' = lastHistoryTimestamp ]_vars

\* C11 amended: humidity is appended to humidityHistory exactly in a step that
\* admits a temperature of a report that also carries humidity.  A report
\* without temperature, and a throttled one, append nothing and leave
\* lastHistoryTimestamp; they leave history and humidityHistory as they were
\* unless the report itself carries that array, which the merge takes over.
\* No other event touches humidityHistory.
C11_HumidityPiggybacks ==
    [][ /\ ~IsReport(last')
            => serverState'.humidityHistory = serverState.humidityHistory
        /\ IsReport(last')
            => /\ serverState'.humidityHistory =
                    IF AdmittingStep /\ Present(last'.data, "humidity")
                    THEN Capped(Append(AfterMerge("humidityHistory"),
                                       last'.data.humidity))
                    ELSE AfterMerge("humidityHistory")
               /\ ~AdmittingStep
                    => /\ serverState'.history = AfterMerge("history")
                       /\ lastHistoryTimestamp' = lastHistoryTimestamp ]_vars

\* a throttled report with temperature and humidity: the readings are stored,
\* humidityHistory got nothing
C11_Witness ==
    /\ IsReport(last)
    /\ last.data = [temperature |-> 21, humidity |-> 50]
    /\ lastHistoryTimestamp # NULL
    /\ lastHistoryTimestamp # last.now
    /\ serverState.humidity = 50
    /\ serverState.history = <<20>>
    /\ serverState.humidityHistory = <<>>

\* C13: a connecting observer is sent exactly one web_update with the current
\* state, at once; it goes to that socket alone (no other observer receives
\* anything), and serverState and lastHistoryTimestamp stay as they were.
C13_ConnectionGetsOneSnapshot ==
    [][ last'.kind = "connection" /\ sockets' # sockets =>
          /\ sockets' = sockets \cup {last'.socket}
          /\ emitted' = << [ event   |-> "web_update",
                             payload |-> serverState,
                             to      |-> last'.socket ] >>
          /\ serverState' = serverState
          /\ lastHistoryTimestamp' = lastHistoryTimestamp ]_vars

\* a second observer connected after the state had changed: the one message of
\* the handler is addressed to it and carries the changed state
C13_Witness ==
    /\ last.kind = "connection"
    /\ last.socket = "s2"
    /\ sockets = {"s1", "s2"}
    /\ serverState.history # <<>>
    /\ serverState.mode = "dry"
    /\ Len(emitted) = 1
    /\ emitted[1].to = "s2"
    /\ emitted[1].payload = serverState

\* C14: a scheduler tick emits exactly one esp32_command {action: "report"} and
\* nothing else (no web_update), leaves serverState and lastHistoryTimestamp as
\* they were, and can fire with any number of connected sockets, zero included.
C14_CronOnlyRelaysReport ==
    /\ [](steps < MaxSteps => ENABLED CronPoll)
    /\ [][ last'.kind = "cron" /\ steps' # steps =>
             /\ emitted' = << [ event   |-> "esp32_command",
                                payload |-> Object([action |-> Str("report")]),
                                to      |-> "all" ] >>
             /\ serverState' = serverState
             /\ lastHistoryTimestamp' = lastHistoryTimestamp
             /\ sockets' = sockets ]_vars

\* a tick with no socket connected, in a state a POST command had changed
C14_Witness ==
    /\ last.kind = "cron"
    /\ sockets = {}
    /\ serverState.power = TRUE
    /\ Len(emitted) = 1
    /\ emitted[1].event = "esp32_command"

\* C15: web_command and POST /api/command do the same to the core: from the
\* same state and for the same command, a step of either path leaves the
\* DeviceState the other would leave and emits what the other would emit, the
\* relay first and then the broadcast of the updated state when there is one.
C15_CommandPathsAgree ==
    [][ (IsCommand(last') /\ steps' # steps /\ last'.data \in ObjectCommands) =>
          /\ PostApiEffect(last'.data)
          /\ WebCommandEffect(last'.data)
          /\ lastHistoryTimestamp' = lastHistoryTimestamp ]_vars

\* a command accepted over the socket after a temp command: it was relayed
\* first, and the state carrying its value was broadcast after the relay
C15_Witness ==
    /\ steps = 2
    /\ last.kind = "web_command"
    /\ last.data = Object([action |-> Str("set_swing"), value |-> Str("on")])
    /\ serverState.targetTemp = 18
    /\ last.updated
    /\ serverState.swing = "on"
    /\ Len(emitted) = 2
    /\ emitted[1] = Emit("esp32_command", last.data)
    /\ emitted[2] = Emit("web_update", serverState)
    /\ response = NoResponse

\* the fields of DeviceState that hold a current value
ValueFields ==
    {"power", "mode", "targetTemp", "fanSpeed", "swing", "temperature", "humidity"}

\* C16: after a device report every current-value field the report carries
\* holds the report's value and every one it does not carry holds what it held;
\* this is so on every report, admitted or not.  The history arrays follow the
\* same rule in a report that is not admitted; an admission appends to them.
C16_ReportOverwritesPresentFields ==
    [][ IsReport(last') =>
          /\ DOMAIN serverState' = DOMAIN serverState
          /\ \A f \in ValueFields :
                serverState'[f] = IF Present(last'.data, f)
                                  THEN last'.data[f] ELSE serverState[f]
          /\ ~AdmittingStep =>
                \A f \in {"history", "humidityHistory"} :
                    serverState'[f] = IF Present(last'.data, f)
                                      THEN last'.data[f] ELSE serverState[f] ]_vars

\* a throttled report of control fields and, before it, of a temperature: the
\* temperature holds the reading that was not admitted, history is unchanged
C16_Witness ==
    /\ steps = 3
    /\ IsReport(last)
    /\ last.data = [power |-> TRUE, targetTemp |-> 30, fanSpeed |-> "med"]
    /\ serverState.power = TRUE /\ serverState.targetTemp = 30
    /\ serverState.fanSpeed = "med"
    /\ serverState.mode = InitialServerState.mode
    /\ serverState.temperature = 21
    /\ serverState.history = <<20>>
    /\ lastHistoryTimestamp # NULL

\* the array got x at the end; when it held MAX_HISTORY entries its first entry
\* went and the others moved down one place, in their order
FifoAppended(old, new, x) ==
    /\ Len(old) < MAX_HISTORY =>
          new = Append(old, x)
    /\ Len(old) = MAX_HISTORY =>
          /\ Len(new) = MAX_HISTORY
          /\ new[MAX_HISTORY] = x
          /\ \A i \in 1..(MAX_HISTORY - 1) : new[i] = old[i + 1]

\* C17: an admission appends the temperature at the end of history; when
\* history held MAX_HISTORY entries exactly the first one is removed and the
\* others keep their order.  The same holds for humidityHistory and the
\* humidity of an admitted report.
C17_HistoryIsFifo ==
    [][ AdmittingStep =>
          /\ FifoAppended(AfterMerge("history"), serverState'.history,
                          last'.data.temperature)
          /\ Present(last'.data, "humidity") =>
                FifoAppended(AfterMerge("humidityHistory"),
                             serverState'.humidityHistory,
                             last'.data.humidity) ]_vars

\* an admission into stored histories of MAX_HISTORY entries: both lost their
\* first entry and got the new reading at the end
C17_Witness ==
    /\ IsReport(last)
    /\ last.data = [temperature |-> 21, humidity |-> 50]
    /\ lastHistoryTimestamp = last.now
    /\ serverState.history = SubSeq(FullHistory, 2, MAX_HISTORY) \o <<21>>
    /\ serverState.humidityHistory = SubSeq(FullHistory, 2, MAX_HISTORY) \o <<50>>

\* C18: lastHistoryTimestamp starts null and changes only in a step that admits
\* a temperature, which sets it to the time of the admission; commands, ticks,
\* connections, request_state, disconnections, reports without temperature and
\* throttled reports leave it, and it never goes back to null.
C18_TimestampOnlyByAdmission ==
    /\ lastHistoryTimestamp = NULL
    /\ [][ /\ lastHistoryTimestamp' # lastHistoryTimestamp
                => (AdmittingStep /\ Admitted /\ lastHistoryTimestamp' # NULL)
           /\ ( \/ ~IsReport(last')
                \/ ~Present(last'.data, "temperature")
                \/ (lastHistoryTimestamp # NULL /\ Throttled) )
                => lastHistoryTimestamp' = lastHistoryTimestamp ]_vars

\* an admission at time 1, a throttled temperature report later on, then a
\* scheduler tick: the timestamp is still that of the admission
C18_Witness ==
    /\ steps = 3
    /\ last.kind = "cron"
    /\ lastHistoryTimestamp = 1
    /\ clock = historyIntervalMs
    /\ serverState.history = <<20>>
    /\ serverState.temperature = 21

\* the field an action writes
TargetField(l) ==
    CASE IsCommandWith(l, "power")     -> "power"
      [] IsCommandWith(l, "set_mode")  -> "mode"
      [] IsCommandWith(l, "set_fan")   -> "fanSpeed"
      [] IsCommandWith(l, "set_swing") -> "swing"
      [] IsCommandWith(l, "temp")      -> "targetTemp"
      [] OTHER                         -> "none"

\* C19: an accepted observer command changes no field other than the target
\* field of its action; the sensor readings, both histories, the other control
\* fields and lastHistoryTimestamp are what they were.
C19_CommandChangesOnlyTarget ==
    [][ (IsCommand(last') /\ last'.updated) =>
          /\ TargetField(last') # "none"
          /\ DOMAIN serverState' = DOMAIN serverState
          /\ \A f \in DOMAIN serverState \ {TargetField(last')} :
                serverState'[f] = serverState[f]
          /\ lastHistoryTimestamp' = lastHistoryTimestamp ]_vars

\* a temp command accepted after a device report had set the unit on and filled
\* the readings and both histories
C19_Witness ==
    /\ IsCommandWith(last, "temp")
    /\ last.updated
    /\ serverState.targetTemp = 25
    /\ serverState.power = FALSE
    /\ serverState.temperature = 21 /\ serverState.humidity = 50
    /\ serverState.history = <<21>> /\ serverState.humidityHistory = <<50>>
    /\ lastHistoryTimestamp # NULL

\* humidityHistory is no longer than history
HumidityNoLonger(state) == Len(state.humidityHistory) <= Len(state.history)

\* C20: humidityHistory starts no longer than history, and every step that is
\* not a device report carrying a history or humidityHistory field keeps it so.
\* Hence it is never longer in a run whose reports carry no such field.
C20_HumidityNoLongerThanHistory ==
    /\ HumidityNoLonger(serverState)
    /\ [][ ( /\ HumidityNoLonger(serverState)
             /\ IsReport(last') =>
                   ( /\ ~Present(last'.data, "history")
                     /\ ~Present(last'.data, "humidityHistory") ) )
           => HumidityNoLonger(serverState') ]_vars

\* both histories hold MAX_HISTORY entries and a report with temperature and
\* humidity was admitted after a command: both still hold MAX_HISTORY entries
C20_Witness ==
    /\ steps = 3
    /\ IsReport(last)
    /\ last.data = [temperature |-> 21, humidity |-> 50]
    /\ lastHistoryTimestamp = last.now
    /\ serverState.mode = "dry"
    /\ Len(serverState.history) = MAX_HISTORY
    /\ Len(serverState.humidityHistory) = MAX_HISTORY
    /\ serverState.humidityHistory[MAX_HISTORY] = 50

====
